---- MODULE Spec2Model ----
(***************************************************************************)
(* Model of pb_update.py: the Picoblaze ROM updater's memory layout engine *)
(* (Bram, MemRow, MemLayout) and the packing driver in main().             *)
(*                                                                         *)
(* Strings that the program splits or joins (the -r option, instance       *)
(* names, instance_spec) are sequences of one-character strings.           *)
(* An optional value (None or a value) is a sequence of length 0 or 1.     *)
(* Discovered instances are Spartan-6 style blocks whose depth and width   *)
(* are resolved to integers by find_ram_instances; the block RAMs of one   *)
(* design share one primitive.  Bram.loc is carried through unchanged by   *)
(* the program and is left out of the records.                             *)
(***************************************************************************)
EXTENDS Integers, Sequences, FiniteSets, TLC

VARIABLES pc, ram_insts, inames, ram_inst, mem_lines, target_depth,
          prompt_user, lo, spec, spec_r, spec_b, sel, status, err, bmm_file

vars == <<pc, ram_insts, inames, ram_inst, mem_lines, target_depth,
          prompt_user, lo, spec, spec_r, spec_b, sel, status, err, bmm_file>>

(***************************************************************************)
(* Bounds of the model                                                     *)
(***************************************************************************)
MaxInst == 3

MaxSpecNames == 3

MaxDepthUnits == 3

MaxRows == 2

MaxBlocks == 3

(***************************************************************************)
(* Program constants                                                       *)
(***************************************************************************)
target_width == 18

S6_RAMB16_BITS == 16384

S6_RAMB8_BITS == 8192

Digits == <<"1", "2", "3", "4", "5", "6", "7", "8", "9">>

\* Instance names as the netlist scan yields them; InstName(i) sorts
\* before InstName(j) for i < j, so sorted(ram_insts.keys()) is index order.
InstName(i) == <<"r", Digits[i]>>

\* A name that no discovered instance has.
AbsentName == <<"z">>

Primitives == {"RAMB16BWER", "RAMB8BWER"}

Widths == {9, 18}

(***************************************************************************)
(* find_ram_instances: Spartan-6 resolution of depth and width             *)
(***************************************************************************)
RECURSIVE width_np(_)
\* 2**int(math.log(width, 2))
width_np(width) == IF width < 2 THEN 1 ELSE 2 * width_np(width \div 2)

Bram(instance, primitive) ==
    [instance |-> instance, primitive |-> primitive,
     depth |-> <<>>, width |-> <<>>, lsb |-> 0]

find_ram_instance(instance, primitive, width) ==
    LET depth == IF primitive = "RAMB16BWER"
                 THEN S6_RAMB16_BITS \div width_np(width)
                 ELSE S6_RAMB8_BITS \div width_np(width)
    IN [Bram(instance, primitive) EXCEPT !.depth = depth, !.width = width]

\* Bram.msb
msb(b) == b.lsb + b.width - 1

(***************************************************************************)
(* MemRow                                                                  *)
(***************************************************************************)
MemRow(start, end) ==
    [start |-> start, end |-> end, brams |-> <<>>, target_width |-> 18]

\* MemRow.depth
MemRow_depth(r) == r.end - r.start + 1

RECURSIVE sum_widths(_)
sum_widths(brams) ==
    IF brams = <<>> THEN 0 ELSE Head(brams).width + sum_widths(Tail(brams))

\* MemRow.width
MemRow_width(r) == sum_widths(r.brams)

\* add_bram placing a later block below the previous block by the previous
\* block's width instead of its own
add_bram_prev_width(r, b) ==
    LET n == Len(r.brams) + 1
    IN IF n >= 2
       THEN [r EXCEPT !.brams = Append(r.brams,
                         [b EXCEPT !.lsb = r.brams[n - 1].lsb
                                            - r.brams[n - 1].width])]
       ELSE [r EXCEPT !.brams = Append(r.brams,
                         [b EXCEPT !.lsb = r.target_width - b.width]),
                      !.end = r.start + b.depth - 1]

\* MemRow.add_bram
add_bram(r, b) ==
    LET n == Len(r.brams) + 1
    IN IF n >= 2
       THEN [r EXCEPT !.brams = Append(r.brams,
                         [b EXCEPT !.lsb = r.brams[n - 1].lsb - b.width])]
       ELSE [r EXCEPT !.brams = Append(r.brams,
                         [b EXCEPT !.lsb = r.target_width - b.width]),
                      !.end = r.start + b.depth - 1]

\* valid accepting any row that is not wider than the required width
MemRow_valid_at_most(r, width) == MemRow_width(r) <= width

\* MemRow.valid
MemRow_valid(r, width) == MemRow_width(r) = width

\* MemRow.bus_block: one lane per block, in member order
bus_block(r) ==
    [i \in 1..Len(r.brams) |->
        [instance |-> r.brams[i].instance,
         msb |-> msb(r.brams[i]), lsb |-> r.brams[i].lsb]]

(***************************************************************************)
(* MemLayout                                                               *)
(***************************************************************************)
\* add_row translating the row to the previous row's end, not past it
add_row_onto_end(rows, row, relative_start) ==
    IF relative_start /\ Len(rows) > 0
    THEN Append(rows, [row EXCEPT !.start = row.start + rows[Len(rows)].end,
                                  !.end = row.end + rows[Len(rows)].end])
    ELSE Append(rows, row)

\* MemLayout.add_row
add_row(rows, row, relative_start) ==
    IF relative_start /\ Len(rows) > 0
    THEN Append(rows, [row EXCEPT !.start = row.start + rows[Len(rows)].end + 1,
                                  !.end = row.end + rows[Len(rows)].end + 1])
    ELSE Append(rows, row)

RECURSIVE all_rows_valid(_, _)
all_rows_valid(rows, width) ==
    IF rows = <<>> THEN TRUE
    ELSE MemRow_valid(Head(rows), width) /\ all_rows_valid(Tail(rows), width)

RECURSIVE sum_depths(_)
sum_depths(rows) ==
    IF rows = <<>> THEN 0 ELSE MemRow_depth(Head(rows)) + sum_depths(Tail(rows))

\* MemLayout.valid
MemLayout_valid(rows, depth, width) ==
    LET rv == all_rows_valid(rows, width)
    IN rv /\ sum_depths(rows) = depth

RECURSIVE join(_, _)
\* sep.join(parts)
join(sep, parts) ==
    IF parts = <<>> THEN <<>>
    ELSE IF Len(parts) = 1 THEN parts[1]
    ELSE parts[1] \o <<sep>> \o join(sep, Tail(parts))

\* instance_spec joining the rows with the separator of the instances
instance_spec_one_separator(rows) ==
    join(",", [i \in 1..Len(rows) |->
                 join(",", [j \in 1..Len(rows[i].brams) |->
                              rows[i].brams[j].instance])])

\* MemLayout.instance_spec
instance_spec(rows) ==
    join(":", [i \in 1..Len(rows) |->
                 join(",", [j \in 1..Len(rows[i].brams) |->
                              rows[i].brams[j].instance])])

\* MemLayout.bmm
bmm(rows) ==
    LET first_bram == rows[1].brams[1]
        size == first_bram.depth * first_bram.width
        btype == IF size <= 1024 * 16 THEN "RAMB16"
                 ELSE IF size <= 1024 * 18 THEN "RAMB18"
                 ELSE IF size <= 1024 * 32 THEN "RAMB32"
                 ELSE IF size <= 1024 * 36 THEN "RAMB36"
                 ELSE "unknown"
        end_addr == (rows[Len(rows)].end + 1) * Len(rows[1].brams) - 1
    IN [btype |-> btype, start_addr |-> 0, end_addr |-> end_addr,
        blocks |-> [i \in 1..Len(rows) |-> bus_block(rows[i])]]

(***************************************************************************)
(* Helpers of main()                                                       *)
(***************************************************************************)
RECURSIVE split(_, _)
\* s.split(sep) for a one-character separator
split(s, sep) ==
    IF \A k \in 1..Len(s) : s[k] # sep THEN <<s>>
    ELSE LET k == CHOOSE k \in 1..Len(s) :
                     s[k] = sep /\ \A j \in 1..(k - 1) : s[j] # sep
         IN <<SubSeq(s, 1, k - 1)>> \o split(SubSeq(s, k + 1, Len(s)), sep)

\* spec = [r.split(',') for r in options.ram_inst.split(':')]
parse_spec(text) ==
    LET rs == split(text, ":")
    IN [i \in 1..Len(rs) |-> split(rs[i], ",")]

RECURSIVE flatten(_)
\* spec_flat = [i for s in spec for i in s]
flatten(ss) == IF ss = <<>> THEN <<>> ELSE Head(ss) \o flatten(Tail(ss))

Range(s) == {s[i] : i \in 1..Len(s)}

\* len(set(spec_flat)) < len(spec_flat)
has_duplicates(spec_flat) == Cardinality(Range(spec_flat)) < Len(spec_flat)

\* some i in spec_flat is not in inames
has_missing(spec_flat, names) == \E i \in 1..Len(spec_flat) :
                                    spec_flat[i] \notin Range(names)

\* remove dropping the last name of the list instead of the selected one
remove_last(names, x) == SubSeq(names, 1, Len(names) - 1)

\* inames.remove(x): drops the first occurrence
remove(names, x) ==
    LET k == CHOOSE k \in 1..Len(names) :
                 names[k] = x /\ \A j \in 1..(k - 1) : names[j] # x
    IN SubSeq(names, 1, k - 1) \o SubSeq(names, k + 1, Len(names))

\* widths = [b.width for r in lo.rows for b in r.brams]
layout_widths(rows) ==
    flatten([i \in 1..Len(rows) |->
               [j \in 1..Len(rows[i].brams) |-> rows[i].brams[j].width]])

\* all(widths[0] == w for w in widths[1:]) guarded by len(widths) > 0
widths_uniform(widths) ==
    Len(widths) > 0 => \A k \in 2..Len(widths) : widths[1] = widths[k]

\* the depth check accepting a layout shallower than required
depth_matches_at_most(rows, depth) == rows[Len(rows)].end + 1 <= depth

\* lo.rows[-1].end + 1 != target_depth
depth_matches(rows, depth) == rows[Len(rows)].end + 1 = depth

\* the new row appended at its own addresses, not after the previous row
open_next_row_absolute(rows, depth) ==
    IF MemRow_valid(rows[Len(rows)], target_width)
       /\ ~MemLayout_valid(rows, depth, target_width)
    THEN add_row(rows, MemRow(0, 0), FALSE)
    ELSE rows

\* lines 201-203: open a new row when the row is complete but depth is short
open_next_row(rows, depth) ==
    IF MemRow_valid(rows[Len(rows)], target_width)
       /\ ~MemLayout_valid(rows, depth, target_width)
    THEN add_row(rows, MemRow(0, 0), TRUE)
    ELSE rows

\* len(mem_data) after dropping the address-offset line
required_depth(lines) == IF lines > 1 THEN lines - 1 ELSE lines

(***************************************************************************)
(* Inputs                                                                  *)
(***************************************************************************)
Names(n) == {InstName(i) : i \in 1..n}

SortedNames(n) == [i \in 1..n |-> InstName(i)]

RECURSIVE interleave(_, _, _)
\* the -r text naming flat[k..] with ':' after the positions in cuts
interleave(flat, cuts, k) ==
    IF k = Len(flat) THEN flat[k]
    ELSE flat[k] \o <<IF k \in cuts THEN ":" ELSE ",">>
                 \o interleave(flat, cuts, k + 1)

RamInstTexts(n) ==
    UNION {{interleave(flat, cuts, 1) :
               flat \in [1..m -> Names(n) \cup {AbsentName}],
               cuts \in SUBSET (1..(m - 1))} : m \in 1..MaxSpecNames}

\* line counts of the mem file: an offset line and 512 * k data words
MemLines == {512 * k + 1 : k \in 0..MaxDepthUnits}

UserInputs ==
    {[kind |-> "quit", val |-> 0], [kind |-> "text", val |-> 0]}
    \cup {[kind |-> "num", val |-> v] : v \in 0..(MaxInst + 1)}

NoInput == [kind |-> "none", val |-> 0]

(***************************************************************************)
(* The driver                                                              *)
(***************************************************************************)
\* the state at line 121: instances discovered, options parsed, empty layout
Start(with_ram_inst) ==
    /\ pc = "discovered"
    /\ \E n \in 0..MaxInst :
         /\ \E primitive \in Primitives, width \in [Names(n) -> Widths] :
              ram_insts = [nm \in Names(n) |->
                             find_ram_instance(nm, primitive, width[nm])]
         /\ inames = SortedNames(n)
         /\ ram_inst \in {<<>>} \cup
                         (IF with_ram_inst
                          THEN {<<t>> : t \in RamInstTexts(n)} ELSE {})
    /\ mem_lines \in MemLines
    /\ target_depth = 0
    /\ prompt_user = TRUE
    /\ lo = <<>>
    /\ spec = <<>>
    /\ spec_r = 0
    /\ spec_b = 0
    /\ sel = NoInput
    /\ status = <<>>
    /\ err = ""
    /\ bmm_file = <<>>

Init == Start(TRUE)

\* report_error(msg, exit=code) and sys.exit(code)
Exit(code, msg) ==
    /\ pc' = "exit"
    /\ status' = <<code>>
    /\ err' = msg

\* lines 116-117
NoInstances ==
    /\ pc = "discovered"
    /\ Len(inames) = 0
    /\ Exit(1, "No RAM instances found")
    /\ UNCHANGED <<ram_insts, inames, ram_inst, mem_lines, target_depth,
                   prompt_user, lo, spec, spec_r, spec_b, sel, bmm_file>>

\* lines 123-126
AutoPack ==
    /\ pc = "discovered"
    /\ Len(inames) = 1
    /\ lo' = LET rows == add_row(lo, MemRow(0, 0), TRUE)
             IN [rows EXCEPT ![1] = add_bram(rows[1], ram_insts[inames[1]])]
    /\ prompt_user' = FALSE
    /\ pc' = "readmem"
    /\ UNCHANGED <<ram_insts, inames, ram_inst, mem_lines, target_depth,
                   spec, spec_r, spec_b, sel, status, err, bmm_file>>

\* lines 127-146
CheckSpec ==
    /\ pc = "discovered"
    /\ Len(inames) > 1
    /\ ram_inst # <<>>
    /\ LET sp == parse_spec(ram_inst[1])
           spec_flat == flatten(sp)
       IN IF has_duplicates(spec_flat)
          THEN /\ Exit(1, "Duplicate instances in BRAM spec")
               /\ UNCHANGED <<spec, spec_r>>
          ELSE IF has_missing(spec_flat, inames)
          THEN /\ Exit(1, "Instance does not exist in netlist")
               /\ UNCHANGED <<spec, spec_r>>
          ELSE /\ spec' = sp
               /\ spec_r' = 1
               /\ pc' = "build_row"
               /\ UNCHANGED <<status, err>>
    /\ UNCHANGED <<ram_insts, inames, ram_inst, mem_lines, target_depth,
                   prompt_user, lo, spec_b, sel, bmm_file>>

\* lines 149-150
SpecAddRow ==
    /\ pc = "build_row"
    /\ spec_r <= Len(spec)
    /\ lo' = add_row(lo, MemRow(0, 0), TRUE)
    /\ spec_b' = 1
    /\ pc' = "build_bram"
    /\ UNCHANGED <<ram_insts, inames, ram_inst, mem_lines, target_depth,
                   prompt_user, spec, spec_r, sel, status, err, bmm_file>>

\* lines 151-152
SpecAddBram ==
    /\ pc = "build_bram"
    /\ lo' = [lo EXCEPT ![Len(lo)] =
                add_bram(lo[Len(lo)], ram_insts[spec[spec_r][spec_b]])]
    /\ IF spec_b < Len(spec[spec_r])
       THEN /\ spec_b' = spec_b + 1
            /\ UNCHANGED <<spec_r, pc>>
       ELSE /\ spec_r' = spec_r + 1
            /\ pc' = "build_row"
            /\ UNCHANGED spec_b
    /\ UNCHANGED <<ram_insts, inames, ram_inst, mem_lines, target_depth,
                   prompt_user, spec, sel, status, err, bmm_file>>

\* line 154
SpecDone ==
    /\ pc = "build_row"
    /\ spec_r > Len(spec)
    /\ prompt_user' = FALSE
    /\ pc' = "readmem"
    /\ UNCHANGED <<ram_insts, inames, ram_inst, mem_lines, target_depth,
                   lo, spec, spec_r, spec_b, sel, status, err, bmm_file>>

\* neither branch of lines 123-154 is taken
NoSpec ==
    /\ pc = "discovered"
    /\ Len(inames) > 1
    /\ ram_inst = <<>>
    /\ pc' = "readmem"
    /\ UNCHANGED <<ram_insts, inames, ram_inst, mem_lines, target_depth,
                   prompt_user, lo, spec, spec_r, spec_b, sel, status, err,
                   bmm_file>>

\* lines 157-170
ReadMem ==
    /\ pc = "readmem"
    /\ target_depth' = required_depth(mem_lines)
    /\ lo' = IF prompt_user THEN add_row(lo, MemRow(0, 0), TRUE) ELSE lo
    /\ pc' = "loop"
    /\ UNCHANGED <<ram_insts, inames, ram_inst, mem_lines, prompt_user,
                   spec, spec_r, spec_b, sel, status, err, bmm_file>>

\* line 172
LoopCond == prompt_user /\ ~MemLayout_valid(lo, target_depth, target_width)

LoopExit ==
    /\ pc = "loop"
    /\ ~LoopCond
    /\ pc' = "final"
    /\ UNCHANGED <<ram_insts, inames, ram_inst, mem_lines, target_depth,
                   prompt_user, lo, spec, spec_r, spec_b, sel, status, err,
                   bmm_file>>

\* lines 178-179
NoBramsRemaining ==
    /\ pc = "loop"
    /\ LoopCond
    /\ Len(inames) = 0
    /\ Exit(1, "No BRAMs remaining")
    /\ UNCHANGED <<ram_insts, inames, ram_inst, mem_lines, target_depth,
                   prompt_user, lo, spec, spec_r, spec_b, sel, bmm_file>>

\* lines 189-192
selection_index(input) == IF input.kind = "num" THEN input.val - 1 ELSE -1

\* lines 186-187
UserQuit ==
    /\ pc = "loop"
    /\ LoopCond
    /\ Len(inames) > 0
    /\ sel' = [kind |-> "quit", val |-> 0]
    /\ Exit(0, "")
    /\ UNCHANGED <<ram_insts, inames, ram_inst, mem_lines, target_depth,
                   prompt_user, lo, spec, spec_r, spec_b, bmm_file>>

\* lines 186-195
InvalidSelection ==
    /\ pc = "loop"
    /\ LoopCond
    /\ Len(inames) > 0
    /\ \E input \in UserInputs :
         /\ input.kind # "quit"
         /\ sel' = input
         /\ selection_index(input) < 0
            \/ selection_index(input) >= Len(inames)
    /\ Exit(1, "Invalid selection")
    /\ UNCHANGED <<ram_insts, inames, ram_inst, mem_lines, target_depth,
                   prompt_user, lo, spec, spec_r, spec_b, bmm_file>>

\* lines 186-206
SelectBram ==
    /\ pc = "loop"
    /\ LoopCond
    /\ Len(inames) > 0
    /\ \E input \in UserInputs :
         /\ input.kind # "quit"
         /\ sel' = input
         /\ selection_index(input) >= 0
         /\ selection_index(input) < Len(inames)
         /\ LET name == inames[selection_index(input) + 1]
                placed == [lo EXCEPT ![Len(lo)] =
                             add_bram(lo[Len(lo)], ram_insts[name])]
            IN IF MemRow_width(placed[Len(placed)]) > target_width
               THEN /\ lo' = placed
                    /\ Exit(1, "Row is too wide")
                    /\ UNCHANGED inames
               ELSE /\ lo' = open_next_row(placed, target_depth)
                    /\ inames' = remove(inames, name)
                    /\ UNCHANGED <<pc, status, err>>
    /\ UNCHANGED <<ram_insts, ram_inst, mem_lines, target_depth,
                   prompt_user, spec, spec_r, spec_b, bmm_file>>

\* lines 215-229
PostChecks ==
    /\ pc = "final"
    /\ IF ~widths_uniform(layout_widths(lo))
       THEN /\ Exit(1, "Mixed width BRAMs not supported in memory layout")
            /\ UNCHANGED bmm_file
       ELSE IF ~depth_matches(lo, target_depth)
       THEN /\ Exit(1, "Memory layout depth does not match")
            /\ UNCHANGED bmm_file
       ELSE /\ bmm_file' = <<bmm(lo)>>
            /\ pc' = "data2mem"
            /\ UNCHANGED <<status, err>>
    /\ UNCHANGED <<ram_insts, inames, ram_inst, mem_lines, target_depth,
                   prompt_user, lo, spec, spec_r, spec_b, sel>>

\* lines 232-244: the external tool either fails or succeeds
Data2mem ==
    /\ pc = "data2mem"
    /\ \E ok \in BOOLEAN :
         IF ok THEN Exit(0, "") ELSE Exit(1, "data2mem failure")
    /\ UNCHANGED <<ram_insts, inames, ram_inst, mem_lines, target_depth,
                   prompt_user, lo, spec, spec_r, spec_b, sel, bmm_file>>

Next ==
    \/ NoInstances
    \/ AutoPack
    \/ CheckSpec
    \/ SpecAddRow
    \/ SpecAddBram
    \/ SpecDone
    \/ NoSpec
    \/ ReadMem
    \/ LoopExit
    \/ NoBramsRemaining
    \/ UserQuit
    \/ InvalidSelection
    \/ SelectBram
    \/ PostChecks
    \/ Data2mem

Spec == Init /\ [][Next]_vars

(***************************************************************************)
(* The driver run without the -r option: single-instance auto-pack or the  *)
(* interactive selection loop.  Every step of the single-threaded driver   *)
(* is eventually taken and every prompt is answered.                       *)
(***************************************************************************)
PromptInit == Start(FALSE)

PromptNext ==
    \/ NoInstances
    \/ AutoPack
    \/ NoSpec
    \/ ReadMem
    \/ LoopExit
    \/ NoBramsRemaining
    \/ UserQuit
    \/ InvalidSelection
    \/ SelectBram
    \/ PostChecks
    \/ Data2mem

PromptSpec == PromptInit /\ [][PromptNext]_vars /\ WF_vars(PromptNext)

(***************************************************************************)
(* The layout engine on its own: any caller of MemLayout.add_row and       *)
(* MemRow.add_bram, with rows created empty and blocks as discovery        *)
(* resolves them.                                                          *)
(***************************************************************************)
Blocks == {find_ram_instance(InstName(1), primitive, width) :
              primitive \in Primitives, width \in Widths}

RowEnds == {0, 511}

BlockCount(rows) == Len(layout_widths(rows))

LayoutInit ==
    /\ pc = "engine"
    /\ ram_insts = <<>>
    /\ inames = <<>>
    /\ ram_inst = <<>>
    /\ mem_lines = 0
    /\ target_depth = 0
    /\ prompt_user = FALSE
    /\ lo = <<>>
    /\ spec = <<>>
    /\ spec_r = 0
    /\ spec_b = 0
    /\ sel = NoInput
    /\ status = <<>>
    /\ err = ""
    /\ bmm_file = <<>>

\* lo.add_row(MemRow(0, end), relative_start)
EngineAddRow ==
    /\ pc = "engine"
    /\ Len(lo) < MaxRows
    /\ \E end \in RowEnds, relative_start \in BOOLEAN :
         lo' = add_row(lo, MemRow(0, end), relative_start)
    /\ UNCHANGED <<pc, ram_insts, inames, ram_inst, mem_lines, target_depth,
                   prompt_user, spec, spec_r, spec_b, sel, status, err,
                   bmm_file>>

\* lo.rows[i].add_bram(b)
EngineAddBram ==
    /\ pc = "engine"
    /\ BlockCount(lo) < MaxBlocks
    /\ \E i \in 1..Len(lo), b \in Blocks :
         lo' = [lo EXCEPT ![i] = add_bram(lo[i], b)]
    /\ UNCHANGED <<pc, ram_insts, inames, ram_inst, mem_lines, target_depth,
                   prompt_user, spec, spec_r, spec_b, sel, status, err,
                   bmm_file>>

LayoutNext ==
    \/ EngineAddRow
    \/ EngineAddBram

LayoutSpec == LayoutInit /\ [][LayoutNext]_vars

(***************************************************************************)
(* Properties.  The row and layout measures below are stated on their own, *)
(* not through MemRow.width or MemLayout.valid.                            *)
(***************************************************************************)
RECURSIVE SeqSum(_)
SeqSum(s) ==
    IF Len(s) = 0 THEN 0 ELSE s[Len(s)] + SeqSum(SubSeq(s, 1, Len(s) - 1))

RowBits(r) == SeqSum([j \in 1..Len(r.brams) |-> r.brams[j].width])

BitsThrough(r, j) == SeqSum([k \in 1..j |-> r.brams[k].width])

RowWords(r) == r.end - r.start + 1

LayoutWords(rows) == SeqSum([i \in 1..Len(rows) |-> RowWords(rows[i])])

ValidFor(rows, depth, width) ==
    /\ \A i \in 1..Len(rows) : RowBits(rows[i]) = width
    /\ LayoutWords(rows) = depth

Discovered == DOMAIN ram_insts

PlacedNames == flatten([i \in 1..Len(lo) |->
                          [j \in 1..Len(lo[i].brams) |-> lo[i].brams[j].instance]])

AddressMapWritten == bmm_file # <<>>

\* C1: whenever the address map is written, on every driver path, the layout
\* is valid for (required_depth, 18): every row is exactly 18 bits wide and
\* the row depths sum to the required depth.
C1_WrittenLayoutIsValid ==
    AddressMapWritten => ValidFor(lo, target_depth, 18)

\* C2: with at least one discovered instance, a supplied selection spec that
\* names an absent instance or names an instance twice aborts the process
\* with a non-zero status before any row is added and without writing the
\* address map.
C2_BadSpecAbortsBeforeRows ==
    (/\ Cardinality(Discovered) >= 1
     /\ ram_inst # <<>>
     /\ LET named == flatten(parse_spec(ram_inst[1]))
        IN \/ \E k \in 1..Len(named) : named[k] \notin Discovered
           \/ \E k, m \in 1..Len(named) : k # m /\ named[k] = named[m])
    => /\ lo = <<>>
       /\ ~AddressMapWritten
       /\ pc \in {"discovered", "exit"}
       /\ pc = "exit" => status # <<0>>

\* C3: on the selection-spec and interactive paths, a row whose summed width
\* exceeds 18 is fatal right after the addition that caused it (non-zero
\* exit, 'row too wide'); no written layout has a row wider than 18 or a
\* block with a negative low bit.
C3_TooWideIsFatal ==
    /\ \A i \in 1..Len(lo) :
         RowBits(lo[i]) > 18 =>
           pc = "exit" /\ status = <<1>> /\ err = "Row is too wide"
    /\ AddressMapWritten =>
         \A i \in 1..Len(lo) :
            /\ RowBits(lo[i]) <= 18
            /\ \A j \in 1..Len(lo[i].brams) : lo[i].brams[j].lsb >= 0

C4_Stacked ==
    \A i \in 1..Len(lo) : \A j \in 1..Len(lo[i].brams) :
       LET b == lo[i].brams[j]
       IN /\ b.lsb = 18 - BitsThrough(lo[i], j)
          /\ msb(b) = b.lsb + b.width - 1
          /\ msb(b) = IF j = 1 THEN 17 ELSE lo[i].brams[j - 1].lsb - 1

C4_EarlierLowBitsKept ==
    \A i \in 1..Len(lo) : \A j \in 1..Len(lo[i].brams) :
       /\ i <= Len(lo')
       /\ j <= Len(lo'[i].brams)
       /\ lo'[i].brams[j].lsb = lo[i].brams[j].lsb

\* C4: in a row created empty, the i-th block added has low bit
\* 18 - (w1 + ... + wi) and high bit low bit + wi - 1, so the blocks occupy
\* adjacent ranges stacked downward from bit 17; adding a later block never
\* changes the low bit of an earlier one.
C4_LowBitsStackDownward == []C4_Stacked /\ [][C4_EarlierLowBitsKept]_vars

\* a written address map whose row holds two width-9 blocks at [17:9], [8:0]
C4_Witness ==
    /\ AddressMapWritten
    /\ \E i \in 1..Len(bmm_file[1].blocks) :
         LET lanes == bmm_file[1].blocks[i]
         IN /\ Len(lanes) = 2
            /\ lanes[1].msb = 17 /\ lanes[1].lsb = 9
            /\ lanes[2].msb = 8 /\ lanes[2].lsb = 0

ProbeDepths ==
    {0, 512, 1024}
    \cup {LayoutWords(lo) - 1, LayoutWords(lo), LayoutWords(lo) + 1}

ProbeWidths ==
    {0, 9, 17, 18, 19, 27, 36} \cup {RowBits(lo[i]) : i \in 1..Len(lo)}

\* C5: MemLayout.valid(depth, width) is true iff every row's summed block
\* width equals width exactly and the row depths sum to depth exactly.
C5_ValidIsExact ==
    \A depth \in ProbeDepths, width \in ProbeWidths :
       MemLayout_valid(lo, depth, width) <=> ValidFor(lo, depth, width)

\* a layout of several complete rows, valid for its depth at width 18 only
C5_Witness ==
    /\ Len(lo) >= 2
    /\ MemLayout_valid(lo, LayoutWords(lo), 18)
    /\ ~MemLayout_valid(lo, LayoutWords(lo), 27)
    /\ ~MemLayout_valid(lo, LayoutWords(lo) + 1, 18)

\* C6: while the driver builds a layout the rows are address-contiguous: the
\* first row starts at 0, each later row starts at the previous row's end + 1,
\* and a row holding a block spans the depth of its first block.
C6_RowsContiguous ==
    \A i \in 1..Len(lo) :
       /\ lo[i].start = IF i = 1 THEN 0 ELSE lo[i - 1].end + 1
       /\ lo[i].brams # <<>> =>
            lo[i].end - lo[i].start + 1 = lo[i].brams[1].depth

\* two rows holding blocks, the second one after the first
C6_Witness ==
    /\ Len(lo) >= 2
    /\ lo[1].brams # <<>>
    /\ lo[2].brams # <<>>
    /\ lo[2].start > 0

RECURSIVE AddAll(_, _)
AddAll(row, names) ==
    IF names = <<>> THEN row
    ELSE AddAll(add_bram(row, ram_insts[Head(names)]), Tail(names))

RECURSIVE BuildRows(_, _)
BuildRows(rows, sp) ==
    IF sp = <<>> THEN rows
    ELSE LET opened == add_row(rows, MemRow(0, 0), TRUE)
         IN BuildRows([opened EXCEPT ![Len(opened)] =
                         AddAll(opened[Len(opened)], Head(sp))], Tail(sp))

\* the layout lines 121-154 build for the option -r text over the discovered
\* instances, or <<>> when they abort
Rebuilt(text) ==
    LET names == SortedNames(Cardinality(Discovered))
        sp == parse_spec(text)
    IN IF Len(names) = 1 THEN <<BuildRows(<<>>, << <<names[1]>> >>)>>
       ELSE IF has_duplicates(flatten(sp)) \/ has_missing(flatten(sp), names)
       THEN <<>>
       ELSE <<BuildRows(<<>>, sp)>>

\* C7: the instance_spec of a finalized layout, given back as the selection
\* spec over the same discovered instances, rebuilds the same layout: the
\* same rows, the same instances in the same order, the same low bits and
\* address ranges.
C7_InstanceSpecRoundTrip ==
    AddressMapWritten => Rebuilt(instance_spec(lo)) = <<lo>>

\* a finalized layout of several rows, one of them with several blocks
C7_Witness ==
    /\ AddressMapWritten
    /\ Len(lo) >= 2
    /\ \E i \in 1..Len(lo) : Len(lo[i].brams) >= 2

C8_QuitIsClean ==
    sel.kind = "quit" => pc = "exit" /\ status = <<0>> /\ ~AddressMapWritten

C8_RowOpened ==
    (pc = "loop" /\ pc' = "loop" /\ lo' # lo) =>
       LET k == Len(lo)
       IN (/\ RowBits(lo'[k]) = 18
           /\ ~ValidFor(SubSeq(lo', 1, k), target_depth, 18))
          => /\ Len(lo') = k + 1
             /\ lo'[k + 1].brams = <<>>
             /\ lo'[k + 1].start = lo'[k].end + 1

\* C8: in the interactive loop, a selection that completes the current row
\* while the layout is not yet valid makes the driver append an empty row
\* starting at the previous row's end + 1 before the next prompt; a quit at
\* any prompt exits with status 0 and the address map is never written.
C8_NewRowThenCleanQuit == []C8_QuitIsClean /\ [][C8_RowOpened]_vars

\* the user quit at the prompt that followed the opening of a second row
C8_Witness ==
    /\ sel.kind = "quit"
    /\ Len(lo) = 2
    /\ RowBits(lo[1]) = 18
    /\ lo[2].brams = <<>>
    /\ lo[2].start = lo[1].end + 1

SameWidths ==
    \A i1, i2 \in 1..Len(lo) :
       \A j1 \in 1..Len(lo[i1].brams), j2 \in 1..Len(lo[i2].brams) :
          lo[i1].brams[j1].width = lo[i2].brams[j2].width

EndsAtDepth == lo[Len(lo)].end = target_depth - 1

C9_WrittenAfterChecks == AddressMapWritten => SameWidths /\ EndsAtDepth

C9_FailedCheckAborts ==
    (pc = "final" /\ pc' # "final") =>
       IF SameWidths /\ EndsAtDepth
       THEN bmm_file' # <<>>
       ELSE pc' = "exit" /\ status' # <<0>> /\ bmm_file' = <<>>

\* C9: the address map is written only after both post-assembly checks pass:
\* all blocks of the layout have one width and the last row ends at
\* required_depth - 1; when a check fails the process exits non-zero and the
\* address map is not written.
C9_ChecksBeforeAddressMap ==
    []C9_WrittenAfterChecks /\ [][C9_FailedCheckAborts]_vars

\* an address map written for a layout of two rows of equal-width blocks
C9_Witness ==
    /\ AddressMapWritten
    /\ Len(lo) = 2
    /\ SameWidths
    /\ lo[2].end = target_depth - 1

C10_PlacedOnce ==
    /\ \A k, m \in 1..Len(PlacedNames) :
          k # m => PlacedNames[k] # PlacedNames[m]
    /\ Len(PlacedNames) <= Cardinality(Discovered)
    /\ err = "No BRAMs remaining" =>
          pc = "exit" /\ status # <<0>> /\ ~AddressMapWritten

C10_IterationConsumes ==
    (pc = "loop" /\ pc' # "final") =>
       \/ pc' = "exit" /\ status' # <<>>
       \/ /\ pc' = "loop"
          /\ Len(inames') = Len(inames) - 1
          /\ Range(inames') \subseteq Range(inames)
          /\ Cardinality(Range(inames')) = Cardinality(Range(inames)) - 1
          /\ Len(PlacedNames') = Len(PlacedNames) + 1

\* C10: the interactive loop terminates: each iteration ends the process or
\* removes exactly one instance from the remaining list, so after at most N
\* selections the loop has stopped on a valid layout or aborted (running out
\* of instances is fatal, non-zero, nothing written); no instance is placed
\* twice.
C10_LoopTerminates ==
    /\ []C10_PlacedOnce
    /\ [][C10_IterationConsumes]_vars
    /\ (pc = "loop" ~> pc \in {"final", "exit"})

\* every discovered instance was selected and the layout is still not valid
C10_Witness ==
    /\ err = "No BRAMs remaining"
    /\ Len(PlacedNames) = Cardinality(Discovered)
    /\ Cardinality(Discovered) = MaxInst

====
